---- MODULE Spec2Model ----
(***************************************************************************)
(* Model of jenkins-history.py: the JenkinsClient.get wrapper, the two     *)
(* commands list-jobs and job-history, and the field extractors            *)
(* (_color_to_status, _extract_trigger_info, _extract_parameters,          *)
(* _format_parameters).                                                    *)
(*                                                                         *)
(* Python strings are sequences of one-character strings, so that `in`,    *)
(* str.replace, slicing and len are computed as Python computes them.      *)
(* A JSON value is a record [t, s, n]: t is the JSON type ("absent" for a  *)
(* key the object does not have), s the characters of a string, n the      *)
(* number (1/0 for true/false).                                            *)
(***************************************************************************)
EXTENDS Integers, Sequences, FiniteSets, TLC

VARIABLES pc, exitStatus, builds, idx, out, lastUrl, lastResp, anomalies,
          jobs, lastDetail, fnPc, fnActions, fnTrigger, fnParams, fnFormatted

vars == <<pc, exitStatus, builds, idx, out, lastUrl, lastResp, anomalies,
          jobs, lastDetail, fnPc, fnActions, fnTrigger, fnParams, fnFormatted>>

cliVars == <<pc, exitStatus, builds, idx, out, lastUrl, lastResp, anomalies, jobs,
             lastDetail>>

fnVars == <<fnPc, fnActions, fnTrigger, fnParams, fnFormatted>>

-----------------------------------------------------------------------------
(* Bounds of the model.                                                    *)

\* longest actions list given to the extractors
MaxActions == 2

\* longest build listing returned by the server
MaxBuilds == 25

\* longest job listing returned by the server
MaxJobs == 2

\* how many build details of one run differ from the plain finished build
MaxAnomalies == 1

\* builds[:20] and len(builds) > 20
DisplayLimit == 20

-----------------------------------------------------------------------------
(* String literals of the program and of the sample inputs.                *)

S_StartedByUser == <<"S", "t", "a", "r", "t", "e", "d", " ", "b", "y", " ", "u", "s", "e", "r">>

S_StartedByUserSp == <<"S", "t", "a", "r", "t", "e", "d", " ", "b", "y", " ", "u", "s", "e", "r", " ">>

S_StartedBy == <<"S", "t", "a", "r", "t", "e", "d", " ", "b", "y">>

S_StartedBySp == <<"S", "t", "a", "r", "t", "e", "d", " ", "b", "y", " ">>

S_SCMTimer == <<"S", "C", "M", "/", "T", "i", "m", "e", "r">>

S_Unknown == <<"U", "n", "k", "n", "o", "w", "n">>

S_UNKNOWN == <<"U", "N", "K", "N", "O", "W", "N">>

S_None == <<"N", "o", "n", "e">>

S_Dots == <<".", ".", ".">>

S_CommaSp == <<",", " ">>

S_Eq == <<"=">>

S_True == <<"T", "r", "u", "e">>

S_False == <<"F", "a", "l", "s", "e">>

S_StartedByUserAlice == <<"S", "t", "a", "r", "t", "e", "d", " ", "b", "y", " ", "u", "s", "e", "r", " ", "A", "l", "i", "c", "e">>

S_StartedByTimer == <<"S", "t", "a", "r", "t", "e", "d", " ", "b", "y", " ", "t", "i", "m", "e", "r">>

S_timer == <<"t", "i", "m", "e", "r">>

S_PushEvent == <<"P", "u", "s", "h", " ", "e", "v", "e", "n", "t">>

S_bob == <<"b", "o", "b">>

S_SUCCESS == <<"S", "U", "C", "C", "E", "S", "S">>

S_ENV == <<"E", "N", "V">>

S_BRANCH == <<"B", "R", "A", "N", "C", "H">>

S_K == <<"K">>

S_a == <<"a">>

S_b == <<"b">>

S_featureLogin == <<"f", "e", "a", "t", "u", "r", "e", "/", "l", "o", "g", "i", "n">>

S_app == <<"a", "p", "p">>

S_blue == <<"b", "l", "u", "e">>

S_red == <<"r", "e", "d">>

S_yellow == <<"y", "e", "l", "l", "o", "w">>

S_grey == <<"g", "r", "e", "y">>

S_disabled == <<"d", "i", "s", "a", "b", "l", "e", "d">>

S_aborted == <<"a", "b", "o", "r", "t", "e", "d">>

S_blue_anime == <<"b", "l", "u", "e", "_", "a", "n", "i", "m", "e">>

S_red_anime == <<"r", "e", "d", "_", "a", "n", "i", "m", "e">>

S_yellow_anime == <<"y", "e", "l", "l", "o", "w", "_", "a", "n", "i", "m", "e">>

S_grey_anime == <<"g", "r", "e", "y", "_", "a", "n", "i", "m", "e">>

S_disabled_anime == <<"d", "i", "s", "a", "b", "l", "e", "d", "_", "a", "n", "i", "m", "e">>

S_aborted_anime == <<"a", "b", "o", "r", "t", "e", "d", "_", "a", "n", "i", "m", "e">>

S_notbuilt == <<"n", "o", "t", "b", "u", "i", "l", "t">>

S_unknown == <<"u", "n", "k", "n", "o", "w", "n">>

S_FAILURE == <<"F", "A", "I", "L", "U", "R", "E">>

S_UNSTABLE == <<"U", "N", "S", "T", "A", "B", "L", "E">>

S_NOT_BUILT == <<"N", "O", "T", "_", "B", "U", "I", "L", "T">>

S_DISABLED == <<"D", "I", "S", "A", "B", "L", "E", "D">>

S_ABORTED == <<"A", "B", "O", "R", "T", "E", "D">>

S_BUILDING == <<"B", "U", "I", "L", "D", "I", "N", "G">>

AnimeSuffix == <<"_", "a", "n", "i", "m", "e">>

Digit == <<"0", "1", "2", "3", "4", "5", "6", "7", "8", "9">>

-----------------------------------------------------------------------------
(* JSON values and the Python operations the program applies to them.      *)

Absent == [t |-> "absent", s |-> <<>>, n |-> 0]

Null == [t |-> "null", s |-> <<>>, n |-> 0]

Str(s) == [t |-> "str", s |-> s, n |-> 0]

Num(n) == [t |-> "int", s |-> <<>>, n |-> n]

Bool(b) == [t |-> "bool", s |-> <<>>, n |-> IF b THEN 1 ELSE 0]

\* an exception raised while computing a value
Raised == [t |-> "raise", s |-> <<>>, n |-> 0]

\* d.get(key, default): the default only replaces a key that is absent
GetOr(v, default) == IF v.t = "absent" THEN default ELSE v

\* bool(v), as `if v:` evaluates it
Truthy(v) ==
    CASE v.t = "str" -> v.s # <<>>
      [] v.t = "int" -> v.n # 0
      [] v.t = "bool" -> v.n = 1
      [] OTHER -> FALSE

RECURSIVE Digits(_)
\* str(n) of a natural number
Digits(n) == IF n < 10 THEN <<Digit[n + 1]>> ELSE Digits(n \div 10) \o <<Digit[(n % 10) + 1]>>

\* str(v)
PyStr(v) ==
    CASE v.t = "str" -> v.s
      [] v.t = "int" -> Digits(v.n)
      [] v.t = "bool" -> IF v.n = 1 THEN S_True ELSE S_False
      [] OTHER -> S_None

\* s.startswith(sub) at position i (1-based)
MatchAt(s, sub, i) ==
    /\ i + Len(sub) - 1 <= Len(s)
    /\ \A j \in 1..Len(sub) : s[i + j - 1] = sub[j]

\* sub in s
Contains(s, sub) == \E i \in 1..(Len(s) + 1) : MatchAt(s, sub, i)

RECURSIVE ReplaceFrom(_, _, _)
\* s.replace(old, ''): every non-overlapping occurrence, left to right
ReplaceFrom(s, old, i) ==
    IF i > Len(s) THEN <<>>
    ELSE IF MatchAt(s, old, i) THEN ReplaceFrom(s, old, i + Len(old))
    ELSE <<s[i]>> \o ReplaceFrom(s, old, i + 1)

Remove(s, old) == ReplaceFrom(s, old, 1)

-----------------------------------------------------------------------------
(* Actions, causes and parameters of a build detail.                       *)

CauseAction == "hudson.model.CauseAction"

ParametersAction == "hudson.model.ParametersAction"

OtherAction == "hudson.model.queue.TimeInQueueAction"

MkCause(u, d) == [userId |-> u, shortDescription |-> d]

MkParam(name, value) == [name |-> name, value |-> value]

MkCauseAction(causes) == [class |-> CauseAction, causes |-> causes, parameters |-> <<>>]

MkParametersAction(params) == [class |-> ParametersAction, causes |-> <<>>, parameters |-> params]

MkOtherAction == [class |-> OtherAction, causes |-> <<>>, parameters |-> <<>>]

\* the branch of _extract_trigger_info taken for one cause that has
\* userId or shortDescription
CauseValueNoStartedBy(cause) ==
    IF cause.userId.t # "absent" THEN cause.userId
    ELSE LET desc == cause.shortDescription IN
         IF desc.t # "str" THEN Raised
         ELSE IF Contains(desc.s, S_StartedByUser) THEN Str(Remove(desc.s, S_StartedByUserSp))
         ELSE Str(S_SCMTimer)

CauseValue(cause) ==
    IF cause.userId.t # "absent" THEN cause.userId
    ELSE LET desc == cause.shortDescription IN
         \* `'Started by user' in None` raises TypeError
         IF desc.t # "str" THEN Raised
         ELSE IF Contains(desc.s, S_StartedByUser) THEN Str(Remove(desc.s, S_StartedByUserSp))
         ELSE IF Contains(desc.s, S_StartedBy) THEN Str(Remove(desc.s, S_StartedBySp))
         ELSE Str(S_SCMTimer)

CauseMatches(cause) == cause.userId.t # "absent" \/ cause.shortDescription.t # "absent"

RECURSIVE FirstCause(_, _)
\* the inner loop: the value returned at the first matching cause, or
\* Absent when the loop ends without returning
FirstCause(causes, i) ==
    IF i > Len(causes) THEN Absent
    ELSE IF CauseMatches(causes[i]) THEN CauseValue(causes[i])
    ELSE FirstCause(causes, i + 1)

RECURSIVE TriggerFrom(_, _)
TriggerFrom(actions, i) ==
    IF i > Len(actions) THEN Str(S_Unknown)
    ELSE IF actions[i].class = CauseAction
         THEN LET r == FirstCause(actions[i].causes, 1) IN
              IF r.t # "absent" THEN r ELSE TriggerFrom(actions, i + 1)
         ELSE TriggerFrom(actions, i + 1)

RECURSIVE TriggerFirstOnly(_, _)
TriggerFirstOnly(actions, i) ==
    IF i > Len(actions) THEN Str(S_Unknown)
    ELSE IF actions[i].class = CauseAction
         THEN LET r == FirstCause(actions[i].causes, 1) IN
              IF r.t # "absent" THEN r ELSE Str(S_Unknown)
         ELSE TriggerFirstOnly(actions, i + 1)

ExtractTriggerFirstOnly(actions) == TriggerFirstOnly(actions, 1)

ExtractTriggerInfo(actions) == TriggerFrom(actions, 1)

-----------------------------------------------------------------------------
(* Inputs of the extractors.                                               *)

CauseSamples ==
    { MkCause(Absent, Absent),
      MkCause(Str(S_bob), Absent),
      MkCause(Str(<<>>), Absent),
      MkCause(Null, Absent),
      MkCause(Str(S_bob), Str(S_StartedByTimer)),
      MkCause(Absent, Str(S_StartedByUserAlice)),
      MkCause(Absent, Str(S_StartedByTimer)),
      MkCause(Absent, Str(S_StartedByUserSp)),
      MkCause(Absent, Str(S_PushEvent)),
      MkCause(Absent, Null) }

CauseLists ==
    {<<>>} \cup {<<c>> : c \in CauseSamples}
           \cup {<<c, d>> : c \in CauseSamples, d \in CauseSamples}

TriggerActionSamples ==
    {MkCauseAction(cs) : cs \in CauseLists} \cup {MkOtherAction}

-----------------------------------------------------------------------------
(* The command-line run is not started in the specifications of the         *)
(* extractors.                                                              *)

NoUrl == [ep |-> "none", number |-> 0]

NoResp == [kind |-> "none", rex |-> FALSE]

NoDetail == [result |-> Absent, timestamp |-> Absent, actions |-> <<>>]

CliIdle ==
    /\ pc = "idle" /\ exitStatus = 0 /\ builds = <<>> /\ idx = 0 /\ out = <<>>
    /\ lastUrl = NoUrl /\ lastResp = NoResp /\ lastDetail = NoDetail
    /\ anomalies = 0 /\ jobs = <<>>

FnIdle ==
    /\ fnPc = "idle" /\ fnActions = <<>> /\ fnTrigger = Absent
    /\ fnParams = <<>> /\ fnFormatted = <<>>

-----------------------------------------------------------------------------
(* Specification of trigger extraction alone.                              *)

TriggerInit ==
    /\ fnPc = "input"
    /\ \E k \in 0..MaxActions : fnActions \in [1..k -> TriggerActionSamples]
    /\ fnTrigger = Absent
    /\ fnParams = <<>>
    /\ fnFormatted = <<>>
    /\ CliIdle

CallExtractTriggerInfo ==
    /\ fnPc = "input"
    /\ fnTrigger' = ExtractTriggerInfo(fnActions)
    /\ fnPc' = "returned"
    /\ UNCHANGED <<fnActions, fnParams, fnFormatted>>
    /\ UNCHANGED cliVars

TriggerNext == CallExtractTriggerInfo

SpecTrigger == TriggerInit /\ [][TriggerNext]_vars

\* every cause of every CauseAction of the list, in order
RECURSIVE AllCauses(_, _)
AllCauses(actions, i) ==
    IF i > Len(actions) THEN <<>>
    ELSE (IF actions[i].class = CauseAction THEN actions[i].causes ELSE <<>>)
         \o AllCauses(actions, i + 1)

SetMin(S) == CHOOSE x \in S : \A y \in S : x <= y

SetMax(S) == CHOOSE x \in S : \A y \in S : y <= x

CauseActionIndexes(actions) == {i \in 1..Len(actions) : actions[i].class = CauseAction}

TimerOnly == <<MkCauseAction(<<MkCause(Absent, Str(S_StartedByTimer))>>)>>

\* C5 as stated: trigger extraction on an actions list whose only CauseAction
\* has the single cause {shortDescription: "Started by timer"} returns
\* "SCM/Timer".
C5_TimerGivesSCMTimer ==
    (fnPc = "returned" /\ fnActions = TimerOnly) => fnTrigger = Str(S_SCMTimer)

\* C5 amended: on that actions list the description contains "Started by",
\* so "Started by " is removed from it and trigger extraction returns "timer".
C5_TimerGivesTimer ==
    (fnPc = "returned" /\ fnActions = TimerOnly) => fnTrigger = Str(S_timer)

C5_Witness == fnPc = "returned" /\ fnActions = TimerOnly /\ fnTrigger.t = "str"

\* C6 as stated: the result of trigger extraction is determined by the first
\* CauseAction of the list alone, and is "Unknown" when none of that
\* CauseAction's causes has userId or shortDescription, whatever later
\* CauseActions contain.
C6_FirstCauseActionOnly ==
    fnPc = "returned" =>
        LET ix == CauseActionIndexes(fnActions) IN
        IF ix = {} THEN fnTrigger = Str(S_Unknown)
        ELSE LET first == fnActions[SetMin(ix)] IN
             /\ fnTrigger = ExtractTriggerInfo(<<first>>)
             /\ (\A k \in 1..Len(first.causes) : ~CauseMatches(first.causes[k]))
                    => fnTrigger = Str(S_Unknown)

\* C6 amended: the result is determined by the first cause, over the causes
\* of all CauseActions of the list in order, that has userId or
\* shortDescription (a CauseAction with no such cause is passed over and the
\* next CauseAction is consulted); the result is "Unknown" exactly when no
\* cause of any CauseAction has either field.
C6_FirstMatchingCause ==
    fnPc = "returned" =>
        LET cs == AllCauses(fnActions, 1)
            m == {k \in 1..Len(cs) : CauseMatches(cs[k])}
        IN IF m = {} THEN fnTrigger = Str(S_Unknown)
           ELSE fnTrigger = CauseValue(cs[SetMin(m)])

C6_Witness ==
    /\ fnPc = "returned"
    /\ Cardinality(CauseActionIndexes(fnActions)) = 2
    /\ LET first == fnActions[SetMin(CauseActionIndexes(fnActions))] IN
       /\ Len(first.causes) = 1
       /\ ~CauseMatches(first.causes[1])
    /\ fnTrigger = Str(S_bob)

\* C7 as stated: for every actions list the triggeredBy value returned by
\* trigger extraction is a non-empty string.
C7_TriggerNonEmpty ==
    fnPc = "returned" => (fnTrigger.t = "str" /\ fnTrigger.s # <<>>)

-----------------------------------------------------------------------------
(* Parameter extraction and formatting.                                    *)

\* parameters[name] = value on an insertion-ordered dict, kept as a sequence
\* of [k, v] entries with distinct keys
DictSet(d, key, value) ==
    IF \E i \in 1..Len(d) : d[i].k = key
    THEN [i \in 1..Len(d) |-> IF d[i].k = key THEN [k |-> key, v |-> value] ELSE d[i]]
    ELSE Append(d, [k |-> key, v |-> value])

RECURSIVE ParamsLoop(_, _, _)
ParamsLoop(params, j, d) ==
    IF j > Len(params) THEN d
    ELSE LET name == GetOr(params[j].name, Str(<<>>))
             value == GetOr(params[j].value, Str(<<>>))
         IN ParamsLoop(params, j + 1,
                       IF Truthy(name) /\ Truthy(value)
                       THEN DictSet(d, name, PyStr(value))
                       ELSE d)

RECURSIVE ParamActionsLoop(_, _, _)
ParamActionsLoop(actions, i, d) ==
    IF i > Len(actions) THEN d
    ELSE ParamActionsLoop(actions, i + 1,
                          IF actions[i].class = ParametersAction
                          THEN ParamsLoop(actions[i].parameters, 1, d)
                          ELSE d)

ExtractParameters(actions) == ParamActionsLoop(actions, 1, <<>>)

RECURSIVE JoinPairs(_, _)
\* ", ".join(f"{k}={v}" for k, v in parameters.items())
JoinPairs(d, i) ==
    IF i > Len(d) THEN <<>>
    ELSE PyStr(d[i].k) \o S_Eq \o d[i].v
         \o (IF i < Len(d) THEN S_CommaSp ELSE <<>>)
         \o JoinPairs(d, i + 1)

\* truncation that keeps 25 characters and then appends the dots
FormatParametersLong(d) ==
    IF d = <<>> THEN S_None
    ELSE LET result == JoinPairs(d, 1) IN
         IF Len(result) > 25 THEN SubSeq(result, 1, 25) \o S_Dots ELSE result

FormatParameters(d) ==
    IF d = <<>> THEN S_None
    ELSE LET result == JoinPairs(d, 1) IN
         IF Len(result) > 25 THEN SubSeq(result, 1, 22) \o S_Dots ELSE result

ParamSamples ==
    { MkParam(Str(S_ENV), Str(S_a)),
      MkParam(Str(S_ENV), Str(S_b)),
      MkParam(Str(S_ENV), Str(<<>>)),
      MkParam(Str(S_ENV), Null),
      MkParam(Str(S_ENV), Bool(FALSE)),
      MkParam(Str(<<>>), Str(S_a)),
      MkParam(Str(S_BRANCH), Str(S_featureLogin)),
      MkParam(Str(S_K), Num(7)),
      MkParam(Str(S_K), Num(10)) }

ParamLists ==
    {<<>>} \cup {<<p>> : p \in ParamSamples}
           \cup {<<p, q>> : p \in ParamSamples, q \in ParamSamples}

ParamActionSamples ==
    {MkParametersAction(ps) : ps \in ParamLists} \cup {MkOtherAction}

ParamsInit ==
    /\ fnPc = "input"
    /\ \E k \in 0..MaxActions : fnActions \in [1..k -> ParamActionSamples]
    /\ fnTrigger = Absent
    /\ fnParams = <<>>
    /\ fnFormatted = <<>>
    /\ CliIdle

CallExtractParameters ==
    /\ fnPc = "input"
    /\ fnParams' = ExtractParameters(fnActions)
    /\ fnPc' = "extracted"
    /\ UNCHANGED <<fnActions, fnTrigger, fnFormatted>>
    /\ UNCHANGED cliVars

CallFormatParameters ==
    /\ fnPc = "extracted"
    /\ fnFormatted' = FormatParameters(fnParams)
    /\ fnPc' = "formatted"
    /\ UNCHANGED <<fnActions, fnTrigger, fnParams>>
    /\ UNCHANGED cliVars

ParamsNext == CallExtractParameters \/ CallFormatParameters

SpecParams == ParamsInit /\ [][ParamsNext]_vars

\* every parameter of every ParametersAction of the list, in order
RECURSIVE AllParams(_, _)
AllParams(actions, i) ==
    IF i > Len(actions) THEN <<>>
    ELSE (IF actions[i].class = ParametersAction THEN actions[i].parameters ELSE <<>>)
         \o AllParams(actions, i + 1)

\* a JSON value that is there and is not the empty string
NonEmpty(v) == v.t \notin {"absent", "null"} /\ ~(v.t = "str" /\ v.s = <<>>)

\* C8 as stated: the map returned by parameter extraction holds, for each
\* name that has at least one entry with non-empty name and non-empty value,
\* the stringified value of the last such entry, holds no other key, and
\* never holds an empty-string key or value.
C8_LastNonEmptyWins ==
    fnPc # "input" =>
        LET ps == AllParams(fnActions, 1)
            good == {j \in 1..Len(ps) : NonEmpty(ps[j].name) /\ NonEmpty(ps[j].value)}
        IN /\ \A j \in good :
                  LET last == SetMax({g \in good : ps[g].name = ps[j].name}) IN
                  \E e \in 1..Len(fnParams) :
                      fnParams[e].k = ps[j].name /\ fnParams[e].v = PyStr(ps[last].value)
           /\ \A e \in 1..Len(fnParams) :
                  /\ fnParams[e].k # Str(<<>>)
                  /\ fnParams[e].v # <<>>
                  /\ \E j \in good : ps[j].name = fnParams[e].k

\* C9: an empty map renders as "None"; otherwise the key=value pairs joined
\* with ", " in map order render unchanged when the joined string has at most
\* 25 characters and as its first 22 characters followed by "..." when it has
\* more, so the rendered string never exceeds 25 characters.
C9_FormatParameters ==
    fnPc = "formatted" =>
        IF Len(fnParams) = 0 THEN fnFormatted = S_None
        ELSE LET joined == JoinPairs(fnParams, 1) IN
             /\ Len(joined) <= 25 => fnFormatted = joined
             /\ Len(joined) > 25 =>
                    /\ Len(fnFormatted) = 25
                    /\ \A c \in 1..22 : fnFormatted[c] = joined[c]
                    /\ \A c \in 23..25 : fnFormatted[c] = "."
             /\ Len(fnFormatted) <= 25

C9_Witness ==
    /\ fnPc = "formatted"
    /\ Len(JoinPairs(fnParams, 1)) = 26
    /\ Len(fnFormatted) = 25

-----------------------------------------------------------------------------
(* The HTTP client and the two commands.                                   *)

\* What the server (or the network) answers to one GET.  rex tells whether
\* the exception the request ends in is a requests RequestException:
\* connection errors, timeouts and raise_for_status always are; the error of
\* response.json() on a body that is not JSON is one in the releases of
\* requests where JSONDecodeError derives from RequestException, and a plain
\* ValueError in the others.
FailResponses ==
    { [kind |-> "transport", rex |-> TRUE],
      [kind |-> "http_status", rex |-> TRUE],
      [kind |-> "bad_json", rex |-> TRUE],
      [kind |-> "bad_json", rex |-> FALSE] }

OkResponse == [kind |-> "ok", rex |-> FALSE]

Responses == FailResponses \cup {OkResponse}

\* one printed line: what it is, the URL or build number it names, and the
\* column values of a table row
Line(kind, url, number, cols) == [kind |-> kind, url |-> url, number |-> number, cols |-> cols]

\* a client whose error branches leave with status 0
GetExitZero(url, resp) ==
    IF resp.kind = "ok" THEN [exits |-> FALSE, status |-> 0, line |-> Line("none", NoUrl, 0, <<>>)]
    ELSE IF resp.rex
         THEN [exits |-> TRUE, status |-> 0, line |-> Line("request_error", url, 0, <<>>)]
         ELSE [exits |-> TRUE, status |-> 0, line |-> Line("parse_error", NoUrl, 0, <<>>)]

\* JenkinsClient.get: the parsed body is returned, or a message is printed
\* and sys.exit(1) ends the process (SystemExit is no Exception, so no
\* `except Exception` of a caller stops it)
Get(url, resp) ==
    IF resp.kind = "ok" THEN [exits |-> FALSE, status |-> 0, line |-> Line("none", NoUrl, 0, <<>>)]
    ELSE IF resp.rex
         THEN [exits |-> TRUE, status |-> 1, line |-> Line("request_error", url, 0, <<>>)]
         ELSE [exits |-> TRUE, status |-> 1, line |-> Line("parse_error", NoUrl, 0, <<>>)]

\* a table that also takes grey_anime for a running build
ColorToStatusGreyAnime(color) ==
    IF color.t # "str" THEN S_UNKNOWN
    ELSE CASE color.s = S_blue -> S_SUCCESS
           [] color.s = S_red -> S_FAILURE
           [] color.s = S_yellow -> S_UNSTABLE
           [] color.s = S_grey -> S_NOT_BUILT
           [] color.s = S_disabled -> S_DISABLED
           [] color.s = S_aborted -> S_ABORTED
           [] color.s = S_blue_anime -> S_BUILDING
           [] color.s = S_red_anime -> S_BUILDING
           [] color.s = S_yellow_anime -> S_BUILDING
           [] color.s = S_grey_anime -> S_BUILDING
           [] OTHER -> S_UNKNOWN

ColorToStatus(color) ==
    IF color.t # "str" THEN S_UNKNOWN
    ELSE CASE color.s = S_blue -> S_SUCCESS
           [] color.s = S_red -> S_FAILURE
           [] color.s = S_yellow -> S_UNSTABLE
           [] color.s = S_grey -> S_NOT_BUILT
           [] color.s = S_disabled -> S_DISABLED
           [] color.s = S_aborted -> S_ABORTED
           [] color.s = S_blue_anime -> S_BUILDING
           [] color.s = S_red_anime -> S_BUILDING
           [] color.s = S_yellow_anime -> S_BUILDING
           [] OTHER -> S_UNKNOWN

MkJob(name, color) == [name |-> name, color |-> color]

JobRow(job) ==
    Line("job_row", NoUrl, 0,
         << PyStr(GetOr(job.name, Str(S_Unknown))),
            ColorToStatus(GetOr(job.color, Str(S_unknown))) >>)

BaseColors == {S_blue, S_red, S_yellow, S_grey, S_disabled, S_aborted}

ColorSamples ==
    {Str(c) : c \in BaseColors} \cup {Str(c \o AnimeSuffix) : c \in BaseColors}
        \cup {Str(S_notbuilt), Absent}

JobSamples == {MkJob(n, c) : n \in {Str(S_app), Absent}, c \in ColorSamples}

\* a slice that keeps the whole list
PrefixAll(s, k) == s

\* builds[:k]
Prefix(s, k) == SubSeq(s, 1, IF Len(s) < k THEN Len(s) ELSE k)

\* the listing of a job with n builds, newest first
Listing(n) == [i \in 1..n |-> Num(n - i + 1)]

\* strftime of the instant, left uninterpreted: the seconds after an "@"
FormatTimestamp(ts) == <<"@">> \o Digits(ts.n \div 1000)

MkDetail(result, timestamp, actions) ==
    [result |-> result, timestamp |-> timestamp, actions |-> actions]

PlainActions ==
    << MkCauseAction(<<MkCause(Str(S_bob), Absent)>>),
       MkParametersAction(<<MkParam(Str(S_ENV), Str(S_a))>>) >>

\* a finished build
PlainDetail == MkDetail(Str(S_SUCCESS), Num(86400000), PlainActions)

\* a build still running, a detail without result and timestamp, and a
\* build whose cause has a null userId
OddDetails ==
    { MkDetail(Null, Num(86400000), PlainActions),
      MkDetail(Absent, Absent, <<MkOtherAction>>),
      MkDetail(Str(S_FAILURE), Num(0), <<MkCauseAction(<<MkCause(Null, Absent)>>)>>) }

\* the body of _display_build_details after the GET: the row printed, or the
\* message of the `except Exception` when an extractor or the formatting of
\* a None column raises TypeError
DetailLine(number, detail) ==
    LET result == GetOr(detail.result, Str(S_UNKNOWN))
        timestamp == GetOr(detail.timestamp, Num(0))
        triggered_by == ExtractTriggerInfo(detail.actions)
        parameters == ExtractParameters(detail.actions)
        build_time == IF Truthy(timestamp) THEN FormatTimestamp(timestamp) ELSE S_Unknown
        params_str == FormatParameters(parameters)
    IN IF triggered_by.t \in {"raise", "null"} \/ result.t = "null" \/ number.t = "null"
       THEN Line("detail_error", NoUrl, number.n, <<>>)
       ELSE Line("row", NoUrl, number.n,
                 <<PyStr(number), PyStr(result), PyStr(triggered_by), build_time, params_str>>)

Init ==
    /\ pc = "ready" /\ exitStatus = 0 /\ builds = <<>> /\ idx = 0 /\ out = <<>>
    /\ lastUrl = NoUrl /\ lastResp = NoResp /\ lastDetail = NoDetail
    /\ anomalies = 0 /\ jobs = <<>>
    /\ FnIdle

Exit(status, lines) ==
    /\ pc' = "exited"
    /\ exitStatus' = status
    /\ out' = out \o lines

\* list_jobs with the answer of its one GET; isObject is whether the JSON
\* body is an object (data.get on anything else raises)
ListJobs(resp, isObject, listed) ==
    /\ pc = "ready"
    /\ lastUrl' = [ep |-> "jobs", number |-> 0]
    /\ lastResp' = resp
    /\ LET got == Get(lastUrl', resp) IN
       IF got.exits THEN Exit(got.status, <<got.line>>) /\ jobs' = jobs
       ELSE IF ~isObject THEN Exit(1, <<Line("command_error", NoUrl, 0, <<>>)>>) /\ jobs' = jobs
       ELSE /\ jobs' = listed
            /\ IF listed = <<>> THEN Exit(0, <<Line("no_jobs", NoUrl, 0, <<>>)>>)
               ELSE Exit(0, <<Line("header", NoUrl, 0, <<>>)>>
                            \o [i \in 1..Len(listed) |-> JobRow(listed[i])]
                            \o <<Line("total", NoUrl, Len(listed), <<>>)>>)
    /\ UNCHANGED <<builds, idx, anomalies, lastDetail>>
    /\ UNCHANGED fnVars

\* job_history up to its loop: the GET of the build listing and the header
JobHistoryStart(resp, isObject, listed) ==
    /\ pc = "ready"
    /\ lastUrl' = [ep |-> "builds", number |-> 0]
    /\ lastResp' = resp
    /\ LET got == Get(lastUrl', resp) IN
       IF got.exits THEN Exit(got.status, <<got.line>>) /\ builds' = builds
       ELSE IF ~isObject THEN Exit(1, <<Line("command_error", NoUrl, 0, <<>>)>>) /\ builds' = builds
       ELSE /\ builds' = listed
            /\ IF listed = <<>> THEN Exit(0, <<Line("no_builds", NoUrl, 0, <<>>)>>)
               ELSE /\ pc' = "history"
                    /\ out' = out \o <<Line("header", NoUrl, 0, <<>>)>>
                    /\ exitStatus' = exitStatus
    /\ UNCHANGED <<idx, anomalies, lastDetail, jobs>>
    /\ UNCHANGED fnVars

\* one round of the loop: _display_build_details of the next build
DisplayBuildDetails(resp, detail) ==
    /\ pc = "history"
    /\ idx < Len(Prefix(builds, DisplayLimit))
    /\ (resp.kind = "ok" /\ detail # PlainDetail) => anomalies < MaxAnomalies
    /\ LET build_number == Prefix(builds, DisplayLimit)[idx + 1] IN
       /\ lastUrl' = [ep |-> "build", number |-> build_number.n]
       /\ lastResp' = resp
       /\ LET got == Get(lastUrl', resp) IN
          IF got.exits
          THEN /\ Exit(got.status, <<got.line>>)
               /\ UNCHANGED <<idx, anomalies, lastDetail>>
          ELSE /\ out' = Append(out, DetailLine(build_number, detail))
               /\ idx' = idx + 1
               /\ lastDetail' = detail
               /\ anomalies' = IF detail = PlainDetail THEN anomalies ELSE anomalies + 1
               /\ UNCHANGED <<pc, exitStatus>>
    /\ UNCHANGED <<builds, jobs>>
    /\ UNCHANGED fnVars

\* job_history after its loop: the notice, and the return to main
JobHistoryEnd ==
    /\ pc = "history"
    /\ idx = Len(Prefix(builds, DisplayLimit))
    /\ IF Len(builds) > DisplayLimit
       THEN Exit(0, <<Line("notice", NoUrl, Len(builds) - DisplayLimit, <<>>)>>)
       ELSE Exit(0, <<>>)
    /\ UNCHANGED <<builds, idx, lastUrl, lastResp, lastDetail, anomalies, jobs>>
    /\ UNCHANGED fnVars

\* the command main dispatches to, with what the server answers
RunListJobs ==
    /\ pc = "ready"
    /\ \E resp \in Responses, isObject \in BOOLEAN, k \in 0..MaxJobs :
           \E listed \in [1..k -> JobSamples] : ListJobs(resp, isObject, listed)

RunJobHistory ==
    /\ pc = "ready"
    /\ \E resp \in Responses, isObject \in BOOLEAN, n \in 0..MaxBuilds :
           JobHistoryStart(resp, isObject, Listing(n))

RunDisplayBuildDetails ==
    /\ pc = "history"
    /\ \E resp \in Responses, detail \in {PlainDetail} \cup OddDetails :
           DisplayBuildDetails(resp, detail)

Next == RunListJobs \/ RunJobHistory \/ RunDisplayBuildDetails \/ JobHistoryEnd

Spec == Init /\ [][Next]_vars

-----------------------------------------------------------------------------
(* Properties of the command-line run.                                     *)

FailureKinds == {"transport", "http_status", "bad_json"}

LinesOf(kind) == SelectSeq(out, LAMBDA l : l.kind = kind)

\* C1 as stated: in job-history, a failure of a build's detail request is
\* caught, reported with the build number and skipped; the process does not
\* terminate because of it.
C1_DetailFailureSkipped ==
    (lastUrl.ep = "build" /\ lastResp.kind \in FailureKinds) =>
        /\ pc # "exited"
        /\ \E i \in 1..Len(out) :
               out[i].kind = "detail_error" /\ out[i].number = lastUrl.number

ListingFailed ==
    /\ pc = "exited"
    /\ lastUrl.ep \in {"jobs", "builds"}
    /\ lastResp.kind \in FailureKinds

\* C2 as stated: whenever the GET for the job listing or the build listing
\* fails for any of the three reasons, the process ends with exit status 1,
\* no table row is printed, and the message printed names the failing URL.
C2_ListingFailureNamesUrl ==
    ListingFailed =>
        /\ exitStatus = 1
        /\ LinesOf("row") = <<>> /\ LinesOf("job_row") = <<>>
        /\ Len(out) = 1 /\ out[1].kind = "request_error" /\ out[1].url = lastUrl

\* C2 amended: whenever the GET for the job listing or the build listing
\* fails for any of the three reasons, the process ends with exit status 1
\* and no table row is printed; the one message printed names the failing
\* URL when the failure is a transport/timeout error or a non-2xx status,
\* and for a non-JSON body it names the URL only when the parse error is a
\* requests RequestException; when it is a plain ValueError the message is
\* the JSON-parse message, which names no URL.
C2_ListingFailureFatal ==
    ListingFailed =>
        /\ exitStatus = 1
        /\ LinesOf("row") = <<>> /\ LinesOf("job_row") = <<>>
        /\ Len(out) = 1
        /\ IF lastResp.kind \in {"transport", "http_status"} \/ lastResp.rex
           THEN out[1].kind = "request_error" /\ out[1].url = lastUrl
           ELSE out[1].kind = "parse_error" /\ out[1].url = NoUrl

C2_Witness ==
    /\ ListingFailed
    /\ lastUrl.ep = "builds"
    /\ lastResp.kind = "bad_json" /\ ~lastResp.rex
    /\ out = <<Line("parse_error", NoUrl, 0, <<>>)>>

\* C3: for a build listing of n entries whose detail requests all succeed
\* with well-formed fields, job-history requests and renders detail rows for
\* exactly the first min(n, 20) entries, in listing order, and prints the
\* notice with N = n - 20 exactly when n > 20, after the last row.
C3_FirstTwentyRows ==
    (pc = "exited" /\ exitStatus = 0 /\ builds # <<>> /\ LinesOf("detail_error") = <<>>) =>
        LET n == Len(builds)
            shown == IF n < 20 THEN n ELSE 20
            rows == LinesOf("row")
            notices == LinesOf("notice")
        IN /\ idx = shown
           /\ Len(rows) = shown
           /\ \A i \in 1..shown : rows[i].number = builds[i].n /\ out[i + 1] = rows[i]
           /\ IF n > 20
              THEN /\ Len(notices) = 1
                   /\ notices[1].number = n - 20
                   /\ out[Len(out)] = notices[1]
                   /\ Len(out) = shown + 2
              ELSE notices = <<>>

C3_Witness ==
    /\ pc = "exited" /\ exitStatus = 0
    /\ Len(builds) = 25
    /\ Len(LinesOf("row")) = 20
    /\ out[Len(out)].kind = "notice" /\ out[Len(out)].number = 5

\* C4 as stated: a build detail whose result field is null or absent (its
\* other fields well formed) is rendered as a row whose status column is
\* "UNKNOWN"; the build is not dropped from the report.
C4_NullResultIsUnknown ==
    ( /\ lastUrl.ep = "build" /\ lastResp.kind = "ok"
      /\ lastDetail.result.t \in {"null", "absent"}
      /\ ExtractTriggerInfo(lastDetail.actions).t = "str" ) =>
        \E i \in 1..Len(out) :
            /\ out[i].kind = "row"
            /\ out[i].number = lastUrl.number
            /\ out[i].cols[2] = S_UNKNOWN

HasAnimeSuffix(s) ==
    /\ Len(s) >= Len(AnimeSuffix)
    /\ SubSeq(s, Len(s) - Len(AnimeSuffix) + 1, Len(s)) = AnimeSuffix

\* the status the table gives a base color
BaseStatus(c) ==
    CASE c = S_blue -> S_SUCCESS
      [] c = S_red -> S_FAILURE
      [] c = S_yellow -> S_UNSTABLE
      [] c = S_grey -> S_NOT_BUILT
      [] c = S_disabled -> S_DISABLED
      [] c = S_aborted -> S_ABORTED

JobsListed == pc = "exited" /\ exitStatus = 0 /\ lastUrl.ep = "jobs" /\ jobs # <<>>

\* the status column of the row printed for the i-th job
StatusShown(i) == out[i + 1].cols[2]

\* C10 as stated: every color code carrying the suffix _anime is shown as
\* BUILDING regardless of its base color (blue, red, yellow, grey, disabled,
\* aborted); a base color without the suffix is shown as its table value and
\* never as BUILDING.
C10_AnimeIsBuilding ==
    JobsListed =>
        \A i \in 1..Len(jobs) :
            LET c == jobs[i].color IN
            /\ (c.t = "str" /\ HasAnimeSuffix(c.s)) => StatusShown(i) = S_BUILDING
            /\ (c.t = "str" /\ c.s \in BaseColors) =>
                   StatusShown(i) = BaseStatus(c.s) /\ StatusShown(i) # S_BUILDING

\* C10 amended: blue_anime, red_anime and yellow_anime are shown as BUILDING;
\* grey_anime, disabled_anime and aborted_anime are not in the table and are
\* shown as UNKNOWN; a base color without the suffix is shown as its table
\* value and never as BUILDING.
C10_TableAnimeIsBuilding ==
    JobsListed =>
        \A i \in 1..Len(jobs) :
            LET c == jobs[i].color IN
            /\ (c.t = "str" /\ c.s \in {S_blue_anime, S_red_anime, S_yellow_anime})
                   => StatusShown(i) = S_BUILDING
            /\ (c.t = "str" /\ c.s \in {S_grey_anime, S_disabled_anime, S_aborted_anime})
                   => StatusShown(i) = S_UNKNOWN
            /\ (c.t = "str" /\ c.s \in BaseColors) =>
                   StatusShown(i) = BaseStatus(c.s) /\ StatusShown(i) # S_BUILDING

C10_Witness ==
    /\ JobsListed
    /\ Len(jobs) = 2
    /\ jobs[1].color = Str(S_grey_anime) /\ StatusShown(1) = S_UNKNOWN
    /\ jobs[2].color = Str(S_red_anime) /\ StatusShown(2) = S_BUILDING

====
